---- MODULE Spec2Model ----
(***************************************************************************)
(* A model of the otter-sql virtual machine (src/src/vm.rs): the register  *)
(* map, the table map, the catalog and the execute / execute_ic /          *)
(* execute_instr loop, one action per instruction.                         *)
(***************************************************************************)
EXTENDS Integers, Sequences, FiniteSets, TLC

\* ------------------------------------------------------------------ bounds
\* Rows a table or an insert definition may hold.
MaxRows == 1
\* Columns a table may hold, and values a row may hold.
MaxCols == 1
\* How deep the parsed expressions handed to the conversion are nested.
MaxDepth == 1

\* ------------------------------------------------------------ input domains
\* Register indices the lowerer uses: two for tables, columns, values and
\* insert definitions, one for the row cursor of an insert.
MainRegs == {0, 1}
RowRegs == {2}
Regs == MainRegs \cup RowRegs
\* Names of user tables, of schemas and of columns.
TableNames == {"t", "u"}
SchemaNames == {"default", "s"}
ColNames == {"a"}
RefNames == {"a", "b"}
DataTypes == {"Bool"}

\* ------------------------------------------------------------------ values
NullV == <<"Null", 0>>
BoolV(b) == <<"Bool", IF b THEN 1 ELSE 0>>
IntV(n) == <<"Int", n>>
Values == {NullV, BoolV(TRUE), BoolV(FALSE), IntV(1)}
\* The values INSERT statements carry.
DataValues == {NullV, BoolV(TRUE), BoolV(FALSE)}

\* Value::data_type
data_type(v) == v[1]

\* Option<T>: None is the empty sequence, Some(x) is <<x>>.
None == <<>>
Some(x) == <<x>>

\* ----------------------------------------------------------------- columns
\* Column::new(name, data_type, options, not_null)
Column(name, dtype) == [name |-> name, data_type |-> dtype, options |-> <<>>]

\* ------------------------------------------------------------------ tables
\* Table::new_temp(num): an empty table whose name is synthesized from num.
new_temp(num) ==
    [name |-> "temp" \o ToString(num), columns |-> <<>>, raw_data |-> <<>>]

\* Table::add_column: the column is appended, rows are left as they are.
add_column(t, col) == [t EXCEPT !.columns = Append(@, col)]

\* Table::new_row: the row is appended as given.
new_row(t, data) == [t EXCEPT !.raw_data = Append(@, data)]

\* Table::is_empty: no rows.
is_empty(t) == t.raw_data = <<>>

\* Table::rename
rename(t, name) == [t EXCEPT !.name = name]

\* Table::sentinel_row: one typed null per column.
sentinel_row(t) == [i \in 1..Len(t.columns) |-> NullV]

\* Table::get_column: the position of the first column of that name, 0 if none.
get_column(t, name) ==
    LET hits == {i \in 1..Len(t.columns) : t.columns[i].name = name}
    IN IF hits = {} THEN 0 ELSE CHOOSE i \in hits : \A j \in hits : i <= j

\* ------------------------------------------------------------- expressions
ValueExpr(v) == [t |-> "Value", v |-> v]
ColumnRef(name) == [t |-> "ColumnRef", name |-> name]
Wildcard == [t |-> "Wildcard"]
Exprs == {Wildcard} \cup {ValueExpr(v) : v \in Values}
                    \cup {ColumnRef(c) : c \in RefNames}
\* The expressions the Expr instruction stores in a register.
RegExprs == {Wildcard}
\* The literals the Value instruction stores in a register: one of each type.
RegValues == {NullV, BoolV(TRUE), IntV(1)}
\* The expressions AddValue is given.
InsertExprs == {ValueExpr(v) : v \in DataValues} \cup {ColumnRef("b")}

EvalOk(v) == [ok |-> TRUE, val |-> v, err |-> "Ok"]
EvalErr(e) == [ok |-> FALSE, val |-> NullV, err |-> e]

\* Expr::execute(expr, table, row)
Eval(expr, table, row) ==
    CASE expr.t = "Value" -> EvalOk(expr.v)
      [] expr.t = "ColumnRef" ->
            LET i == get_column(table, expr.name)
            IN IF i = 0 \/ i > Len(row)
               THEN EvalErr("ExprExecError")
               ELSE EvalOk(row[i])
      [] OTHER -> EvalErr("ExprExecError")

\* ------------------------------------------------ parsed expressions (ast)
Binary(left, op, right) == [t |-> "Binary", left |-> left, op |-> op, right |-> right]
Unary(op, operand) == [t |-> "Unary", op |-> op, operand |-> operand]

\* ast::Expr, as sqlparser hands it over.
AstIdentifier(i) == [t |-> "Identifier", i |-> i]
AstValue(v) == [t |-> "Value", v |-> v]
AstIsNull(e) == [t |-> "IsNull", e |-> e]
AstBetween(expr, negated, low, high) ==
    [t |-> "Between", expr |-> expr, negated |-> negated, low |-> low, high |-> high]
\* An ast::Expr the conversion has no arm for.
AstSubquery == [t |-> "Subquery"]

\* The parsed expressions without operands.
AstLeaves == {AstIdentifier(c) : c \in RefNames} \cup {AstValue(BoolV(TRUE)), AstSubquery}

\* The parsed expressions nested up to depth d; the bounds of a BETWEEN are
\* expressions without operands.
RECURSIVE AstExprs(_)
AstExprs(d) ==
    IF d = 0 THEN AstLeaves
    ELSE LET sub == AstExprs(d - 1)
         IN sub \cup {AstIsNull(e) : e \in sub}
                \cup {AstBetween(e, n, lo, hi) :
                         e \in sub, n \in BOOLEAN, lo \in AstLeaves, hi \in AstLeaves}

ConvOk(e) == [ok |-> TRUE, expr |-> e]
\* ExprError::Expr {reason, expr}
ConvErr(reason, value) == [ok |-> FALSE, reason |-> reason, expr |-> value]

\* The Between arm with the two comparisons the other way round.
BetweenSwapped(expr, negated, left, right) ==
    LET between == Binary(Binary(expr, "LessThanOrEqual", left), "And",
                          Binary(right, "LessThanOrEqual", expr))
    IN IF negated THEN Unary("Not", between) ELSE between

\* The Between arm of try_from, once expr, low and high are converted.
Between(expr, negated, left, right) ==
    LET between == Binary(Binary(left, "LessThanOrEqual", expr), "And",
                          Binary(expr, "LessThanOrEqual", right))
    IN IF negated THEN Unary("Not", between) ELSE between

\* impl TryFrom<ast::Expr> for Expr
RECURSIVE TryFromExpr(_)
TryFromExpr(value) ==
    CASE value.t = "Identifier" -> ConvOk(ColumnRef(value.i))
      [] value.t = "Value" -> ConvOk(ValueExpr(value.v))
      [] value.t = "IsNull" ->
            LET e == TryFromExpr(value.e)
            IN IF ~e.ok THEN e ELSE ConvOk(Unary("IsNull", e.expr))
      [] value.t = "Between" ->
            LET expr == TryFromExpr(value.expr)
                left == TryFromExpr(value.low)
                right == TryFromExpr(value.high)
            IN IF ~expr.ok THEN expr
               ELSE IF ~left.ok THEN left
               ELSE IF ~right.ok THEN right
               ELSE ConvOk(Between(expr.expr, value.negated, left.expr, right.expr))
      [] OTHER -> ConvErr("Unsupported expression", value)

\* ---------------------------------------------------------------- registers
NoReg == [kind |-> "None"]
TableRefReg(h) == [kind |-> "TableRef", h |-> h]
ValueReg(v) == [kind |-> "Value", v |-> v]
ExprReg(e) == [kind |-> "Expr", e |-> e]
ColumnReg(c) == [kind |-> "Column", col |-> c]
\* InsertDef::new(table)
InsertDefNew(h) == [kind |-> "InsertDef", table |-> h, columns |-> <<>>, rows |-> <<>>]
InsertRowReg(def, i) == [kind |-> "InsertRow", def |-> def, row_index |-> i]

\* ------------------------------------------------------------------ catalog
\* Schema::new(name)
SchemaNew(name) == [name |-> name, tables |-> <<>>]
\* Database::new: the default schema is the first schema.
DatabaseNew == <<SchemaNew("default")>>

\* ------------------------------------------------------------------- state
VARIABLES
    database,          \* VirtualMachine.database: the schemas, default first
    registers,         \* VirtualMachine.registers
    tables,            \* VirtualMachine.tables
    last_table_index,  \* VirtualMachine.last_table_index
    pc,                \* "idle" | "exec" (in execute, between statements)
                       \* | "ic" (in execute_ic, called by execute)
                       \* | "ic1" (in execute_ic, called by the host)
                       \* | "aborted" (panicked)
    ret,               \* the local ret of execute_ic
    eret,              \* the local ret of execute
    result,            \* what the last execute call returned
    last,              \* the kind of the step taken last
    hist,              \* history: what the properties need to remember of the run
    lim,               \* the sizes explored in this run: [rows, cols]
    conv               \* a conversion of a parsed expression: [ast, out], or None

vars == <<database, registers, tables, last_table_index, pc, ret, eret, result, last,
          hist, lim, conv>>

\* issued: the handles new_temp_table has returned so far.
\* returned: the table of the last successful Return of the running statement.
\* lastSome: the last non-null statement result of the running execute call.
\* snap: a table NewTable registered, with its schema and name, for as long as
\*       every step since was a successful instruction not aimed at its handle.
\* prev: when the last step was a successful Filter, Order, Limit or Insert, its
\*       operands,
\*       the rows its table had before it, whether the successful
\*       instruction before it was the same instruction, and the rows the
\*       table had before the first of these same instructions.
HistNew ==
    [issued |-> {}, returned |-> None, lastSome |-> None, snap |-> None, prev |-> None]

NoResult == [status |-> "none", tab |-> None]

\* VirtualMachine::new
VmNew ==
    /\ database = DatabaseNew
    /\ registers = [r \in Regs |-> NoReg]
    /\ tables = <<>>
    /\ last_table_index = 0
    /\ pc = "idle"
    /\ ret = None
    /\ eret = None
    /\ result = NoResult
    /\ last = "new"
    /\ hist = HistNew

Init == VmNew /\ conv = None /\ lim = [rows |-> MaxRows, cols |-> MaxCols]

\* HashMap::insert on the table map
TablesInsert(tabs, h, t) ==
    [k \in (DOMAIN tabs) \cup {h} |-> IF k = h THEN t ELSE tabs[k]]

\* HashMap::remove on the table map
TablesRemove(tabs, h) == [k \in (DOMAIN tabs) \ {h} |-> tabs[k]]

\* TableIndex::next_index
next_index(i) == i + 1

\* ------------------------------------------------- outcome of an instruction
\* What execute_instr leaves behind: its result (Ok, an error, or a panic), the
\* three maps as it left them, and the table it returned (Option<Table>).
Outcome(res, regs, tabs, db, out) ==
    [res |-> res, regs |-> regs, tabs |-> tabs, db |-> db, out |-> out]
\* Fail with the registers cleared.
FailCleared(e) == Outcome(e, [r \in Regs |-> NoReg], tables, database, None)
Fail(e) == Outcome(e, registers, tables, database, None)
FailWith(e, regs, tabs) == Outcome(e, regs, tabs, database, None)
Abort == Fail("panic")

\* HashMap::insert / HashMap::remove on the register map
RegSet(regs, i, r) == [regs EXCEPT ![i] = r]
RegRemove(regs, i) == [regs EXCEPT ![i] = NoReg]

\* Database::schema_by_name: the position of the first schema of that name, 0 if none.
schema_by_name(db, name) ==
    LET hits == {i \in 1..Len(db) : db[i].name = name}
    IN IF hits = {} THEN 0 ELSE CHOOSE i \in hits : \A j \in hits : i <= j

\* Database::add_schema
add_schema(db, schema) == Append(db, schema)

\* add_table that stores the handle after the one it is given.
add_table_next(schema, h) == [schema EXCEPT !.tables = Append(@, h + 1)]

\* Schema::add_table
add_table(schema, h) == [schema EXCEPT !.tables = Append(@, h)]

\* VirtualMachine::find_schema / find_schema_mut: the position of the schema,
\* the default schema (the first) for None, 0 for SchemaNotFound.
find_schema(db, name) ==
    IF name = None THEN 1 ELSE schema_by_name(db, name[1])

\* VirtualMachine::find_table: the first handle of the schema whose table has
\* that name. Indexing the table map with a handle it does not hold panics.
find_table(tabs, schema, tref) ==
    LET hs == schema.tables
        bad == {i \in 1..Len(hs) : hs[i] \notin DOMAIN tabs}
        hit == {i \in 1..Len(hs) :
                   hs[i] \in DOMAIN tabs /\ tabs[hs[i]].name = tref.table_name}
        first(S) == CHOOSE i \in S : \A j \in S : i <= j
    IN IF hit = {}
       THEN [res |-> IF bad = {} THEN "TableNotFound" ELSE "panic", h |-> 0]
       ELSE IF bad # {} /\ first(bad) < first(hit)
            THEN [res |-> "panic", h |-> 0]
            ELSE [res |-> "Ok", h |-> hs[first(hit)]]

\* VirtualMachine::new_temp_table: the handle it returns and the table map after.
new_temp_table(tabs, lti) ==
    LET index == next_index(lti)
    IN [index |-> index, tabs |-> TablesInsert(tabs, index, new_temp(index)), lti |-> lti]

\* ---------------------------------------------------------- the instructions
\* Instruction::Value
DoValue(index, value) ==
    Outcome("Ok", RegSet(registers, index, ValueReg(value)), tables, database, None)

\* Instruction::Expr
DoExpr(index, expr) ==
    Outcome("Ok", RegSet(registers, index, ExprReg(expr)), tables, database, None)

\* Instruction::Source
DoSource(index, name) ==
    LET s == IF name.schema_name = None THEN 1
             ELSE schema_by_name(database, name.schema_name[1])
    IN IF s = 0 THEN Fail("SchemaNotFound")
       ELSE LET f == find_table(tables, database[s], name)
            IN IF f.res # "Ok" THEN Fail(f.res)
               ELSE Outcome("Ok", RegSet(registers, index, TableRefReg(f.h)),
                            tables, database, None)

\* Instruction::Empty
DoEmpty(index) ==
    LET n == new_temp_table(tables, last_table_index)
    IN Outcome("Ok", RegSet(registers, index, TableRefReg(n.index)),
               n.tabs, database, None)

\* ValueTable with the column name Project gives an unnamed column.
ValueTablePlaceholder(v, lti) ==
    new_row(add_column(new_temp(next_index(lti)), Column("PLACEHOLDER", data_type(v))), <<v>>)

\* The table Return synthesizes for a scalar value.
ValueTable(v, lti) ==
    new_row(add_column(new_temp(next_index(lti)), Column("?column?", data_type(v))), <<v>>)

\* Instruction::Return
DoReturn(index) ==
    LET reg == registers[index]
        regs == RegRemove(registers, index)
    IN CASE reg.kind = "None" -> Fail("EmptyRegister")
         [] reg.kind = "TableRef" ->
               IF reg.h \in DOMAIN tables
               THEN Outcome("Ok", regs, tables, database, Some(tables[reg.h]))
               ELSE Abort
         [] reg.kind = "Value" ->
               Outcome("Ok", regs, tables, database,
                       Some(ValueTable(reg.v, last_table_index)))
         [] OTHER -> FailWith("CannotReturn", regs, tables)

\* FilterRows that collects the rows it keeps last row first.
FilterRowsReversed(table, expr) ==
    LET rows == table.raw_data
        ev(i) == Eval(expr, table, rows[i])
        bad == {i \in 1..Len(rows) : ~ev(i).ok \/ ev(i).val[1] # "Bool"}
        b == CHOOSE i \in bad : \A j \in bad : i <= j
        kept == SelectSeq(rows, LAMBDA r : Eval(expr, table, r).val = BoolV(TRUE))
    IN IF bad = {}
       THEN [res |-> "Ok", rows |-> [i \in 1..Len(kept) |-> kept[Len(kept) + 1 - i]]]
       ELSE [res |-> IF ev(b).ok THEN "FilterWithNonBoolean" ELSE ev(b).err,
             rows |-> rows]

\* FilterRows that also drops the first row it would keep.
FilterRowsSkipFirst(table, expr) ==
    LET rows == table.raw_data
        ev(i) == Eval(expr, table, rows[i])
        bad == {i \in 1..Len(rows) : ~ev(i).ok \/ ev(i).val[1] # "Bool"}
        b == CHOOSE i \in bad : \A j \in bad : i <= j
        kept == SelectSeq(rows, LAMBDA r : Eval(expr, table, r).val = BoolV(TRUE))
    IN IF bad = {}
       THEN [res |-> "Ok", rows |-> IF kept = <<>> THEN kept ELSE Tail(kept)]
       ELSE [res |-> IF ev(b).ok THEN "FilterWithNonBoolean" ELSE ev(b).err,
             rows |-> rows]

\* The rows Filter keeps, or the first error met going through the rows.
FilterRows(table, expr) ==
    LET rows == table.raw_data
        ev(i) == Eval(expr, table, rows[i])
        bad == {i \in 1..Len(rows) : ~ev(i).ok \/ ev(i).val[1] # "Bool"}
        b == CHOOSE i \in bad : \A j \in bad : i <= j
    IN IF bad = {}
       THEN [res |-> "Ok", rows |-> SelectSeq(rows, LAMBDA r : Eval(expr, table, r).val = BoolV(TRUE))]
       ELSE [res |-> IF ev(b).ok THEN "FilterWithNonBoolean" ELSE ev(b).err,
             rows |-> rows]

\* Instruction::Filter
DoFilter(index, expr) ==
    LET reg == registers[index]
    IN CASE reg.kind = "None" -> Fail("EmptyRegister")
         [] reg.kind = "TableRef" ->
               IF reg.h \notin DOMAIN tables THEN Abort
               ELSE LET f == FilterRows(tables[reg.h], expr)
                    IN IF f.res # "Ok" THEN Fail(f.res)
                       ELSE Outcome("Ok", registers,
                                    [tables EXCEPT ![reg.h].raw_data = f.rows],
                                    database, None)
         [] OTHER -> Fail("RegisterNotATable")

\* Table::get_column_data: the values of the first column of that name, row by row.
get_column_data(t, name) ==
    LET i == get_column(t, name)
    IN IF i = 0 THEN [res |-> "ColumnNotFound", data |-> <<>>]
       ELSE IF \E r \in 1..Len(t.raw_data) : Len(t.raw_data[r]) < i
            THEN [res |-> "panic", data |-> <<>>]
            ELSE [res |-> "Ok", data |-> [r \in 1..Len(t.raw_data) |-> t.raw_data[r][i]]]

\* Table::add_column_data: one value more on every row, or one row per value when
\* the table has no rows.
add_column_data(t, name, data) ==
    IF get_column(t, name) = 0 THEN [res |-> "ColumnNotFound", out |-> t]
    ELSE IF is_empty(t)
         THEN [res |-> "Ok",
               out |-> [t EXCEPT !.raw_data = [r \in 1..Len(data) |-> <<data[r]>>]]]
         ELSE IF Len(t.raw_data) # Len(data)
              THEN [res |-> "TableNewColumnSizeMismatch", out |-> t]
              ELSE [res |-> "Ok",
                    out |-> [t EXCEPT !.raw_data =
                                [r \in 1..Len(data) |-> Append(t.raw_data[r], data[r])]]]

\* Project with Expr::Wildcard: the loop over the input's columns, from column k on.
RECURSIVE ProjectWildcard(_, _, _)
ProjectWildcard(inp, out, k) ==
    IF k > Len(inp.columns) THEN [res |-> "Ok", out |-> out]
    ELSE LET col == inp.columns[k]
             added == add_column(out, col)
             d == get_column_data(inp, col.name)
         IN IF d.res # "Ok" THEN [res |-> d.res, out |-> added]
            ELSE LET a == add_column_data(added, col.name, d.data)
                 IN IF a.res # "Ok" THEN [res |-> a.res, out |-> a.out]
                    ELSE ProjectWildcard(inp, a.out, k + 1)

\* Project with any other expression: one value pushed on each output row that
\* is zipped with an input row, then the new column.
ProjectExpr(inp, out, expr, alias) ==
    LET n == IF Len(inp.raw_data) < Len(out.raw_data)
             THEN Len(inp.raw_data) ELSE Len(out.raw_data)
        ev(i) == Eval(expr, inp, inp.raw_data[i])
        bad == {i \in 1..n : ~ev(i).ok}
        stop == IF bad = {} THEN n + 1 ELSE CHOOSE i \in bad : \A j \in bad : i <= j
        pushed == [out EXCEPT !.raw_data =
                      [r \in 1..Len(out.raw_data) |->
                          IF r < stop /\ r <= n
                          THEN Append(out.raw_data[r], ev(r).val)
                          ELSE out.raw_data[r]]]
        name == IF alias = None THEN "PLACEHOLDER" ELSE alias[1]
    IN IF bad # {} THEN [res |-> ev(stop).err, out |-> pushed]
       ELSE IF pushed.raw_data # <<>>
            THEN LET first == pushed.raw_data[1]
                 IN [res |-> "Ok",
                     out |-> add_column(pushed, Column(name, data_type(first[Len(first)])))]
            ELSE LET s == Eval(expr, inp, sentinel_row(inp))
                 IN IF ~s.ok THEN [res |-> s.err, out |-> pushed]
                    ELSE [res |-> "Ok",
                          out |-> add_column(pushed, Column(name, data_type(s.val)))]

\* ProjectTables without the comparison of the row counts.
ProjectTablesUnchecked(inp, out, expr, alias) ==
    IF expr.t = "Wildcard"
    THEN ProjectWildcard(inp, out, 1)
    ELSE ProjectExpr(inp, out, expr, alias)

\* The body of Project on its two tables: the result and the output table after.
ProjectTables(inp, out, expr, alias) ==
    IF ~is_empty(out) /\ Len(inp.raw_data) # Len(out.raw_data)
    THEN [res |-> "ProjectTableSizeMismatch", out |-> out]
    ELSE IF expr.t = "Wildcard"
         THEN ProjectWildcard(inp, out, 1)
         ELSE ProjectExpr(inp, out, expr, alias)

\* Instruction::Project
DoProject(input, output, expr, alias) ==
    LET ri == registers[input]
        ro == registers[output]
    IN CASE ri.kind = "None" -> Fail("EmptyRegister")
         [] ri.kind # "None" /\ ro.kind = "None" -> Fail("EmptyRegister")
         [] ri.kind = "TableRef" /\ ro.kind = "TableRef" ->
               \* get_many_mut: None for a missing or a repeated key
               IF ri.h = ro.h \/ ri.h \notin DOMAIN tables \/ ro.h \notin DOMAIN tables
               THEN Abort
               ELSE LET p == ProjectTables(tables[ri.h], tables[ro.h], expr, alias)
                    IN IF p.res = "panic" THEN Abort
                       ELSE Outcome(p.res, registers,
                                    [tables EXCEPT ![ro.h] = p.out], database, None)
         [] OTHER -> Fail("RegisterNotATable")

\* The order of Value: nulls first, then booleans, then integers.
ValueKey(v) ==
    CASE v[1] = "Null" -> 0
      [] v[1] = "Bool" -> 1 + v[2]
      [] OTHER -> 3 + v[2]

\* permutation::sort: the stable permutation that sorts the first n keys.
RECURSIVE SortPerm(_, _)
SortPerm(keys, n) ==
    IF n = 0 THEN <<>>
    ELSE LET s == SortPerm(keys, n - 1)
             pos == Cardinality({j \in 1..Len(s) : ValueKey(keys[s[j]]) <= ValueKey(keys[n])})
         IN SubSeq(s, 1, pos) \o <<n>> \o SubSeq(s, pos + 1, Len(s))

\* Vec::reverse
Reverse(s) == [i \in 1..Len(s) |-> s[Len(s) + 1 - i]]

\* The rows after Order, given the keys of the rows.
OrderRows(rows, keys, ascending) ==
    LET perm == SortPerm(keys, Len(keys))
        sorted == [i \in 1..Len(rows) |-> rows[perm[i]]]
    IN IF ascending THEN sorted ELSE Reverse(sorted)

\* Instruction::Order
DoOrder(index, expr, ascending) ==
    LET reg == registers[index]
    IN CASE reg.kind = "None" -> Fail("EmptyRegister")
         [] reg.kind = "TableRef" ->
               IF reg.h \notin DOMAIN tables THEN Abort
               ELSE LET t == tables[reg.h]
                        ev(i) == Eval(expr, t, t.raw_data[i])
                        bad == {i \in 1..Len(t.raw_data) : ~ev(i).ok}
                    IN IF bad # {}
                       THEN Fail(ev(CHOOSE i \in bad : \A j \in bad : i <= j).err)
                       ELSE Outcome("Ok", registers,
                              [tables EXCEPT ![reg.h].raw_data =
                                  OrderRows(@, [i \in 1..Len(t.raw_data) |-> ev(i).val],
                                            ascending)],
                              database, None)
         [] OTHER -> Fail("RegisterNotATable")

\* Vec::truncate that keeps the last n elements.
TruncateFront(s, n) == IF n < Len(s) THEN SubSeq(s, Len(s) - n + 1, Len(s)) ELSE s

\* Vec::truncate
Truncate(s, n) == IF n < Len(s) THEN SubSeq(s, 1, n) ELSE s

\* Instruction::Limit
DoLimit(index, limit) ==
    LET reg == registers[index]
    IN CASE reg.kind = "None" -> Fail("EmptyRegister")
         [] reg.kind = "TableRef" ->
               IF reg.h \notin DOMAIN tables THEN Abort
               ELSE Outcome("Ok", registers,
                            [tables EXCEPT ![reg.h].raw_data = Truncate(@, limit)],
                            database, None)
         [] OTHER -> Fail("RegisterNotATable")

\* NewSchema that adds the schema without looking for one of that name.
DoNewSchemaUnchecked(schema_name, exists_ok) ==
    Outcome("Ok", registers, tables, add_schema(database, SchemaNew(schema_name)), None)

\* Instruction::NewSchema
DoNewSchema(schema_name, exists_ok) ==
    IF schema_by_name(database, schema_name) = 0
    THEN Outcome("Ok", registers, tables, add_schema(database, SchemaNew(schema_name)), None)
    ELSE IF ~exists_ok THEN Fail("SchemaExists")
         ELSE Outcome("Ok", registers, tables, database, None)

\* Instruction::ColumnDef
DoColumnDef(index, name, dtype) ==
    Outcome("Ok", RegSet(registers, index, ColumnReg(Column(name, dtype))),
            tables, database, None)

\* Instruction::AddColumn
DoAddColumn(table_reg_index, col_index) ==
    LET rt == registers[table_reg_index]
        rc == registers[col_index]
    IN CASE rt.kind = "None" -> Fail("EmptyRegister")
         [] rt.kind = "TableRef" ->
               IF rt.h \notin DOMAIN tables THEN Abort
               ELSE CASE rc.kind = "Column" ->
                            Outcome("Ok", registers,
                                    [tables EXCEPT ![rt.h] = add_column(@, rc.col)],
                                    database, None)
                      [] rc.kind = "None" -> Fail("EmptyRegister")
                      [] OTHER -> Fail("RegisterNotAColumn")
         [] OTHER -> Fail("RegisterNotATable")

\* Instruction::NewTable
DoNewTable(index, name, exists_ok) ==
    LET reg == registers[index]
    IN CASE reg.kind = "None" -> Fail("EmptyRegister")
         [] reg.kind = "TableRef" ->
               IF reg.h \notin DOMAIN tables THEN Abort
               ELSE LET renamed == [tables EXCEPT ![reg.h] = rename(@, name.table_name)]
                        s == find_schema(database, name.schema_name)
                    IN IF s = 0 THEN FailWith("SchemaNotFound", registers, renamed)
                       ELSE LET f == find_table(renamed, database[s], name)
                            IN CASE f.res = "Ok" ->
                                       IF ~exists_ok
                                       THEN FailWith("TableExists", registers, renamed)
                                       ELSE Outcome("Ok", registers, renamed, database, None)
                                 [] f.res = "TableNotFound" ->
                                       Outcome("Ok", registers, renamed,
                                               [database EXCEPT ![s] = add_table(@, reg.h)],
                                               None)
                                 [] OTHER -> Abort
         [] OTHER -> Fail("RegisterNotATable")

\* Instruction::InsertDef
DoInsertDef(table_reg_index, index) ==
    LET reg == registers[table_reg_index]
    IN CASE reg.kind = "None" -> Fail("EmptyRegister")
         [] reg.kind = "TableRef" ->
               Outcome("Ok", RegSet(registers, index, InsertDefNew(reg.h)),
                       tables, database, None)
         [] OTHER -> Fail("RegisterNotATable")

\* Instruction::ColumnInsertDef
DoColumnInsertDef(insert_index, col_name) ==
    LET reg == registers[insert_index]
    IN CASE reg.kind = "InsertDef" ->
               IF reg.table \notin DOMAIN tables THEN Abort
               ELSE LET i == get_column(tables[reg.table], col_name)
                    IN IF i = 0 THEN Fail("ColumnNotFound")
                       ELSE Outcome("Ok",
                              RegSet(registers, insert_index,
                                     [reg EXCEPT !.columns =
                                         Append(@, <<i - 1, tables[reg.table].columns[i]>>)]),
                              tables, database, None)
         [] reg.kind = "None" -> Fail("EmptyRegister")
         [] OTHER -> Fail("RegisterNotAInsert")

\* Instruction::RowDef
DoRowDef(insert_index, row_reg_index) ==
    LET reg == registers[insert_index]
    IN CASE reg.kind = "InsertDef" ->
               LET pushed == [reg EXCEPT !.rows = Append(@, <<>>)]
                   row_index == Len(pushed.rows) - 1
               IN Outcome("Ok",
                          RegSet(RegSet(registers, insert_index, pushed),
                                 row_reg_index, InsertRowReg(insert_index, row_index)),
                          tables, database, None)
         [] reg.kind = "None" -> Fail("EmptyRegister")
         [] OTHER -> Fail("RegisterNotAInsert")

\* Instruction::AddValue
DoAddValue(row_reg_index, expr) ==
    LET row == registers[row_reg_index]
    IN CASE row.kind = "InsertRow" ->
               LET insert == registers[row.def]
               IN CASE insert.kind = "InsertDef" ->
                          IF insert.table \notin DOMAIN tables THEN Abort
                          ELSE LET t == tables[insert.table]
                                   v == Eval(expr, t, sentinel_row(t))
                               IN IF ~v.ok THEN Fail(v.err)
                                  ELSE IF row.row_index + 1 > Len(insert.rows) THEN Abort
                                  ELSE Outcome("Ok",
                                         RegSet(registers, row.def,
                                                [insert EXCEPT !.rows[row.row_index + 1] =
                                                    Append(@, v.val)]),
                                         tables, database, None)
                    [] insert.kind = "None" -> Fail("EmptyRegister")
                    [] OTHER -> Fail("RegisterNotAInsert")
         [] row.kind = "None" -> Fail("EmptyRegister")
         [] OTHER -> Fail("RegisterNotAInsertRow")

\* InsertRows that takes the rows of the insert definition last row first.
InsertRowsBackwards(t, rows, k) ==
    [t EXCEPT !.raw_data = @ \o [i \in 1..Len(rows) - k + 1 |-> rows[Len(rows) + 1 - i]]]

\* new_row for every row of the insert definition, in order.
RECURSIVE InsertRows(_, _, _)
InsertRows(t, rows, k) ==
    IF k > Len(rows) THEN t ELSE InsertRows(new_row(t, rows[k]), rows, k + 1)

\* Instruction::Insert
DoInsert(insert_index) ==
    LET reg == registers[insert_index]
        regs == RegRemove(registers, insert_index)
    IN CASE reg.kind = "InsertDef" ->
               IF reg.table \notin DOMAIN tables THEN Abort
               ELSE IF reg.columns = <<>>
                    THEN Outcome("Ok", regs,
                                 [tables EXCEPT ![reg.table] = InsertRows(@, reg.rows, 1)],
                                 database, None)
                    ELSE Abort
         [] reg.kind = "None" -> Fail("EmptyRegister")
         [] OTHER -> FailWith("RegisterNotAInsert", regs, tables)

\* The instructions whose handler is todo!().
ReservedInstrs ==
    {"GroupBy", "Update", "DropTable", "RemoveColumn", "RenameColumn",
     "Union", "CrossJoin", "NaturalJoin"}

\* Instruction::GroupBy, Update, DropTable, RemoveColumn, RenameColumn, Union,
\* CrossJoin, NaturalJoin
DoReserved(kind) == Abort

\* ------------------------------------------------------------------ bounds
TableWithin(t) ==
    /\ Len(t.columns) <= lim.cols
    /\ Len(t.raw_data) <= lim.rows
    /\ \A r \in 1..Len(t.raw_data) : Len(t.raw_data[r]) <= lim.cols

RegWithin(r) ==
    r.kind = "InsertDef" =>
        /\ Len(r.columns) <= lim.cols
        /\ Len(r.rows) <= lim.rows
        /\ \A i \in 1..Len(r.rows) : Len(r.rows[i]) <= lim.cols

WithinBounds(o) ==
    /\ \A h \in DOMAIN o.tabs : TableWithin(o.tabs[h])
    /\ \A r \in Regs : RegWithin(o.regs[r])

\* ------------------------------------------------------------------ actions
\* The kinds of step that execute an instruction.
InstrKinds ==
    {"Value", "Expr", "Source", "Empty", "Return", "Filter", "Project", "Order",
     "Limit", "NewSchema", "ColumnDef", "AddColumn", "NewTable", "InsertDef",
     "ColumnInsertDef", "RowDef", "AddValue", "Insert"} \cup ReservedInstrs

\* The handles the registers in R lead to: a table handle, the table of an
\* insert definition, the table of the insert definition of a row cursor.
HandlesOf(R) ==
    LET direct(r) ==
            CASE registers[r].kind = "TableRef" -> {registers[r].h}
              [] registers[r].kind = "InsertDef" -> {registers[r].table}
              [] OTHER -> {}
    IN UNION {direct(r) : r \in R}
       \cup UNION {direct(registers[r].def) : r \in {x \in R : registers[x].kind = "InsertRow"}}

\* The history after an instruction that used the registers in `used`.
HistInstr(kind, used, o, arg) ==
    [issued |-> IF kind = "Empty" /\ o.res = "Ok"
                THEN hist.issued \cup {next_index(last_table_index)}
                ELSE hist.issued,
     returned |-> IF o.res # "Ok" THEN None
                  ELSE IF kind = "Return" THEN o.out ELSE hist.returned,
     lastSome |-> IF o.res # "Ok" THEN None ELSE hist.lastSome,
     snap |-> IF o.res # "Ok" THEN None
              ELSE IF kind = "NewTable" /\ o.db # database
                   THEN LET h == CHOOSE h \in HandlesOf(used) : TRUE
                            s == CHOOSE s \in 1..Len(database) : o.db[s] # database[s]
                        IN Some([schema |-> database[s].name, h |-> h, tab |-> o.tabs[h]])
                   ELSE IF hist.snap # None /\ hist.snap[1].h \in HandlesOf(used)
                        THEN None
                        ELSE hist.snap,
     prev |-> IF o.res = "Ok" /\ kind \in {"Filter", "Order", "Limit", "Insert"}
              THEN LET h == CHOOSE h \in HandlesOf(used) : TRUE
                       again == /\ hist.prev # None
                                /\ hist.prev[1].kind = kind
                                /\ hist.prev[1].arg = arg
                   IN Some([kind |-> kind, arg |-> arg, rows |-> tables[h].raw_data,
                            again |-> again,
                            first |-> IF again THEN hist.prev[1].first
                                      ELSE tables[h].raw_data])
              ELSE None]

\* One pass of the loop of execute_ic: execute_instr on one instruction that
\* uses the registers in `used` and has the operands `arg`. An error ends
\* execute_ic and execute (the ? operator); a panic ends the VM.
ApplyArg(kind, used, o, arg) ==
    /\ pc \in {"ic", "ic1"}
    /\ WithinBounds(o)
    /\ last' = kind
    /\ UNCHANGED <<lim, conv>>
    /\ UNCHANGED last_table_index
    /\ IF o.res = "panic"
       THEN /\ pc' = "aborted"
            /\ UNCHANGED <<database, registers, tables, ret, eret, result, hist>>
       ELSE /\ registers' = o.regs
            /\ tables' = o.tabs
            /\ database' = o.db
            /\ hist' = HistInstr(kind, used, o, arg)
            /\ IF o.res = "Ok"
               THEN /\ pc' = pc
                    /\ ret' = o.out
                    /\ UNCHANGED <<eret, result>>
               ELSE /\ pc' = "idle"
                    /\ ret' = None
                    /\ eret' = None
                    /\ result' = [status |-> o.res, tab |-> None]

Apply(kind, used, o) == ApplyArg(kind, used, o, None)

TableRefs ==
    [schema_name : {None} \cup {Some(n) : n \in SchemaNames}, table_name : TableNames]

Aliases == {None} \cup {Some(c) : c \in ColNames}

InstrValue ==
    \E index \in MainRegs, value \in RegValues : Apply("Value", {}, DoValue(index, value))
InstrExpr ==
    \E index \in MainRegs, expr \in RegExprs : Apply("Expr", {}, DoExpr(index, expr))
InstrSource ==
    \E index \in MainRegs, name \in TableRefs : Apply("Source", {}, DoSource(index, name))
InstrEmpty ==
    \E index \in MainRegs : Apply("Empty", {}, DoEmpty(index))
InstrReturn ==
    \E index \in Regs : Apply("Return", {index}, DoReturn(index))
FilterStep(index, expr) ==
    ApplyArg("Filter", {index}, DoFilter(index, expr), <<index, expr>>)
InstrFilter ==
    \E index \in MainRegs, expr \in Exprs : FilterStep(index, expr)
InstrProject ==
    \E input \in MainRegs, output \in MainRegs, expr \in Exprs, alias \in Aliases :
        Apply("Project", {input, output}, DoProject(input, output, expr, alias))
OrderStep(index, expr, ascending) ==
    ApplyArg("Order", {index}, DoOrder(index, expr, ascending), <<index, expr, ascending>>)
InstrOrder ==
    \E index \in MainRegs, expr \in Exprs, ascending \in BOOLEAN :
        OrderStep(index, expr, ascending)
LimitStep(index, limit) ==
    ApplyArg("Limit", {index}, DoLimit(index, limit), <<index, limit>>)
InstrLimit ==
    \E index \in MainRegs, limit \in 0..lim.rows : LimitStep(index, limit)
InstrNewSchema ==
    \E schema_name \in SchemaNames, exists_ok \in BOOLEAN :
        Apply("NewSchema", {}, DoNewSchema(schema_name, exists_ok))
InstrColumnDef ==
    \E index \in MainRegs, name \in ColNames, dtype \in DataTypes :
        Apply("ColumnDef", {}, DoColumnDef(index, name, dtype))
InstrAddColumn ==
    \E table_reg_index \in MainRegs, col_index \in MainRegs :
        Apply("AddColumn", {table_reg_index}, DoAddColumn(table_reg_index, col_index))
InstrNewTable ==
    \E index \in MainRegs, name \in TableRefs, exists_ok \in BOOLEAN :
        Apply("NewTable", {index}, DoNewTable(index, name, exists_ok))
InstrInsertDef ==
    \E table_reg_index \in MainRegs, index \in MainRegs :
        Apply("InsertDef", {table_reg_index}, DoInsertDef(table_reg_index, index))
InstrColumnInsertDef ==
    \E insert_index \in MainRegs, col_name \in RefNames :
        Apply("ColumnInsertDef", {insert_index}, DoColumnInsertDef(insert_index, col_name))
InstrRowDef ==
    \E insert_index \in MainRegs, row_reg_index \in RowRegs :
        Apply("RowDef", {insert_index}, DoRowDef(insert_index, row_reg_index))
InstrAddValue ==
    \E row_reg_index \in Regs, expr \in InsertExprs :
        Apply("AddValue", {row_reg_index}, DoAddValue(row_reg_index, expr))
InsertStep(insert_index) ==
    ApplyArg("Insert", {insert_index}, DoInsert(insert_index), <<insert_index>>)
InstrInsert ==
    \E insert_index \in MainRegs : InsertStep(insert_index)
InstrReserved ==
    \E kind \in ReservedInstrs : Apply(kind, {}, DoReserved(kind))

\* execute: parse succeeded, the loop over the statements starts.
Execute ==
    /\ pc = "idle"
    /\ pc' = "exec"
    /\ eret' = None
    /\ result' = NoResult
    /\ last' = "execute"
    /\ UNCHANGED <<lim, conv>>
    /\ hist' = [hist EXCEPT !.prev = None, !.returned = None, !.lastSome = None]
    /\ UNCHANGED <<database, registers, tables, last_table_index, ret>>

\* execute: parse(code)? failed, or codegen(&stmt)? failed on the next statement.
ExecuteError ==
    /\ pc \in {"idle", "exec"}
    /\ result' = [status |-> IF pc = "idle" THEN "ParseError" ELSE "CodegenError",
                  tab |-> None]
    /\ pc' = "idle"
    /\ eret' = None
    /\ last' = "execute_error"
    /\ UNCHANGED <<lim, conv>>
    /\ hist' = [hist EXCEPT !.prev = None, !.returned = None, !.lastSome = None, !.snap = None]
    /\ UNCHANGED <<database, registers, tables, last_table_index, ret>>

\* execute: codegen succeeded, execute_ic starts on the statement's code.
BeginStmt ==
    /\ pc = "exec"
    /\ pc' = "ic"
    /\ ret' = None
    /\ last' = "execute_ic"
    /\ UNCHANGED <<lim, conv>>
    /\ hist' = [hist EXCEPT !.prev = None, !.returned = None]
    /\ UNCHANGED <<database, registers, tables, last_table_index, eret, result>>

\* execute_ic returns Ok(ret); execute stores it in its own ret.
EndStmt ==
    /\ pc = "ic"
    /\ pc' = "exec"
    /\ eret' = ret
    /\ ret' = None
    /\ last' = "end_ic"
    /\ UNCHANGED <<lim, conv>>
    /\ hist' = [hist EXCEPT !.prev = None, !.returned = None,
                            !.lastSome = IF ret # None THEN ret ELSE @]
    /\ UNCHANGED <<database, registers, tables, last_table_index, result>>

\* execute returns Ok(ret).
ExecuteReturn ==
    /\ pc = "exec"
    /\ pc' = "idle"
    /\ result' = [status |-> "Ok", tab |-> eret]
    /\ eret' = None
    /\ last' = "return"
    /\ UNCHANGED <<lim, conv>>
    /\ hist' = [hist EXCEPT !.prev = None, !.lastSome = None]
    /\ UNCHANGED <<database, registers, tables, last_table_index, ret>>

\* execute_ic, called by the host on a pre-lowered program.
CallIc ==
    /\ pc = "idle"
    /\ pc' = "ic1"
    /\ ret' = None
    /\ result' = NoResult
    /\ last' = "execute_ic"
    /\ UNCHANGED <<lim, conv>>
    /\ hist' = [hist EXCEPT !.prev = None, !.returned = None, !.lastSome = None]
    /\ UNCHANGED <<database, registers, tables, last_table_index, eret>>

\* execute_ic returns Ok(ret) to the host.
ReturnIc ==
    /\ pc = "ic1"
    /\ pc' = "idle"
    /\ result' = [status |-> "Ok", tab |-> ret]
    /\ ret' = None
    /\ last' = "end_ic"
    /\ UNCHANGED <<lim, conv>>
    /\ hist' = [hist EXCEPT !.prev = None, !.returned = None]
    /\ UNCHANGED <<database, registers, tables, last_table_index, eret>>

\* VirtualMachine::new_temp_table, called by the host.
HostNewTempTable ==
    /\ pc = "idle"
    /\ LET n == new_temp_table(tables, last_table_index)
       IN /\ tables' = n.tabs
          /\ last_table_index' = n.lti
          /\ hist' = [hist EXCEPT !.prev = None, !.issued = @ \cup {n.index}, !.snap = None]
    /\ last' = "new_temp_table"
    /\ UNCHANGED <<lim, conv>>
    /\ result' = NoResult
    /\ UNCHANGED <<database, registers, pc, ret, eret>>

\* VirtualMachine::drop_table, called by the host.
HostDropTable ==
    /\ pc = "idle"
    /\ \E h \in DOMAIN tables : tables' = TablesRemove(tables, h)
    /\ last' = "drop_table"
    /\ UNCHANGED <<lim, conv>>
    /\ result' = NoResult
    /\ hist' = [hist EXCEPT !.prev = None, !.snap = None]
    /\ UNCHANGED <<database, registers, last_table_index, pc, ret, eret>>

\* ------------------------------------------------------------ specifications
\* Handles and catalog: the host runs one pre-lowered program after another.
NextCatalog ==
    \/ CallIc \/ ReturnIc \/ HostNewTempTable \/ HostDropTable
    \/ InstrEmpty \/ InstrSource \/ InstrNewTable \/ InstrNewSchema
    \/ InstrColumnDef \/ InstrAddColumn

SpecCatalog == Init /\ [][NextCatalog]_vars

\* execute: several statements in one call.
NextExec ==
    \/ Execute \/ ExecuteError \/ BeginStmt \/ EndStmt \/ ExecuteReturn
    \/ InstrValue \/ InstrEmpty \/ InstrReturn \/ InstrColumnDef \/ InstrAddColumn
    \/ InstrNewSchema \/ InstrReserved

SpecExec == Init /\ [][NextExec]_vars

\* Rows: tables are filled by INSERT programs and then queried.
NextRows ==
    \/ CallIc \/ ReturnIc
    \/ InstrEmpty \/ InstrColumnDef \/ InstrAddColumn
    \/ InstrInsertDef \/ InstrColumnInsertDef \/ InstrRowDef \/ InstrAddValue
    \/ InstrInsert \/ InstrFilter \/ InstrReturn

SpecRows == Init /\ [][NextRows]_vars

\* Queries: the VM as an INSERT program leaves it, with one table under the
\* handle new_temp_table issues and a register that holds it.
SeqsUpTo(S, n) == UNION {[1..k -> S] : k \in 0..n}

FilledTables ==
    {[name |-> new_temp(next_index(0)).name, columns |-> cols, raw_data |-> rows] :
        cols \in SeqsUpTo({Column(c, d) : c \in ColNames, d \in DataTypes}, MaxCols),
        rows \in SeqsUpTo(SeqsUpTo(DataValues, MaxCols), MaxRows)}

\* The tables whose rows all have one value per column, and that have a column
\* when they have a row.
RegularTables ==
    {t \in FilledTables :
        /\ \A r \in 1..Len(t.raw_data) : Len(t.raw_data[r]) = Len(t.columns)
        /\ t.raw_data # <<>> => t.columns # <<>>}

InitQuery ==
    /\ database = DatabaseNew
    /\ \E t \in RegularTables : tables = TablesInsert(<<>>, next_index(0), t)
    /\ registers = [r \in Regs |-> IF r = 0 THEN TableRefReg(next_index(0)) ELSE NoReg]
    /\ last_table_index = 0
    /\ pc = "idle"
    /\ ret = None
    /\ eret = None
    /\ result = NoResult
    /\ last = "new"
    /\ conv = None
    /\ lim = [rows |-> MaxRows, cols |-> MaxCols]
    /\ hist = [HistNew EXCEPT !.issued = {next_index(0)}]

\* Return on every kind of register.
NextReturn ==
    \/ CallIc \/ ReturnIc
    \/ InstrValue \/ InstrExpr \/ InstrColumnDef \/ InstrInsertDef
    \/ InstrReturn

SpecReturn == InitQuery /\ [][NextReturn]_vars

\* Projection: the VM with an input table and an output table under the two
\* handles a counter that advances issues, each held by a register.
InitProject ==
    /\ database = DatabaseNew
    /\ \E inp \in RegularTables, out \in RegularTables :
          tables = TablesInsert(TablesInsert(<<>>, next_index(0), inp),
                                next_index(next_index(0)),
                                rename(out, new_temp(next_index(next_index(0))).name))
    /\ registers = [r \in Regs |->
                       CASE r = 0 -> TableRefReg(next_index(0))
                         [] r = 1 -> TableRefReg(next_index(next_index(0)))
                         [] OTHER -> NoReg]
    /\ last_table_index = next_index(next_index(0))
    /\ pc = "idle"
    /\ ret = None
    /\ eret = None
    /\ result = NoResult
    /\ last = "new"
    /\ conv = None
    /\ lim = [rows |-> MaxRows, cols |-> MaxCols]
    /\ hist = [HistNew EXCEPT !.issued = {next_index(0), next_index(next_index(0))}]

NextProject == CallIc \/ ReturnIc \/ InstrProject

SpecProject == InitProject /\ [][NextProject]_vars

\* Dropped tables: the host drops tables between programs that return and
\* filter what their registers hold.
NextDrop ==
    \/ CallIc \/ ReturnIc \/ HostDropTable
    \/ InstrEmpty \/ InstrValue \/ InstrReturn \/ InstrFilter

SpecDrop == Init /\ [][NextDrop]_vars

\* Failures: execute over statements that create, name and return tables.
NextFail ==
    \/ Execute \/ ExecuteError \/ BeginStmt \/ EndStmt \/ ExecuteReturn
    \/ InstrEmpty \/ InstrNewTable \/ InstrReturn

SpecFail == Init /\ [][NextFail]_vars

\* Names: programs that register the two tables of InitProject in the schemas
\* and look them up.
NextNames == CallIc \/ ReturnIc \/ InstrNewTable \/ InstrSource

SpecNames == InitProject /\ [][NextNames]_vars

\* Columns: programs that define columns and add them to tables that may hold
\* one column more than MaxCols.
InitColumns == VmNew /\ conv = None /\ lim = [rows |-> MaxRows, cols |-> MaxCols + 1]

NextColumns ==
    CallIc \/ ReturnIc \/ InstrEmpty \/ InstrValue \/ InstrColumnDef \/ InstrAddColumn

SpecColumns == InitColumns /\ [][NextColumns]_vars

\* Queries over several rows: the VM as an INSERT program leaves it, with one
\* table of up to MaxRows + 1 rows under the handle new_temp_table issues and
\* a register that holds it.
WideTables ==
    UNION {{[name |-> new_temp(next_index(0)).name, columns |-> cols, raw_data |-> rows] :
               rows \in SeqsUpTo([1..Len(cols) -> DataValues],
                                 IF cols = <<>> THEN 0 ELSE MaxRows + 1)} :
           cols \in SeqsUpTo({Column(c, d) : c \in ColNames, d \in DataTypes}, MaxCols)}

InitRows ==
    /\ database = DatabaseNew
    /\ \E t \in WideTables : tables = TablesInsert(<<>>, next_index(0), t)
    /\ registers = [r \in Regs |-> IF r = 0 THEN TableRefReg(next_index(0)) ELSE NoReg]
    /\ last_table_index = 0
    /\ pc = "idle"
    /\ ret = None
    /\ eret = None
    /\ result = NoResult
    /\ last = "new"
    /\ conv = None
    /\ lim = [rows |-> MaxRows + 1, cols |-> MaxCols]
    /\ hist = [HistNew EXCEPT !.issued = {next_index(0)}]

NextOrder == CallIc \/ ReturnIc \/ InstrOrder \/ InstrLimit

SpecOrder == InitRows /\ [][NextOrder]_vars

NextFilter == CallIc \/ ReturnIc \/ InstrFilter

SpecFilter == InitRows /\ [][NextFilter]_vars

\* Schemas: programs that create schemas and register tables in them.
NextSchemas == CallIc \/ ReturnIc \/ InstrNewSchema \/ InstrEmpty \/ InstrNewTable

SpecSchemas == Init /\ [][NextSchemas]_vars

\* Inserts: INSERT programs on a table that may have rows already.
NextInsert ==
    CallIc \/ ReturnIc \/ InstrInsertDef \/ InstrRowDef \/ InstrAddValue \/ InstrInsert

SpecInsert == InitRows /\ [][NextInsert]_vars

\* Conversion: codegen hands a parsed expression to Expr::try_from.
InitConvert ==
    /\ VmNew
    /\ lim = [rows |-> MaxRows, cols |-> MaxCols]
    /\ \E a \in AstExprs(MaxDepth) : conv = Some([ast |-> a, out |-> None])

TryFrom ==
    /\ conv # None
    /\ conv[1].out = None
    /\ conv' = Some([conv[1] EXCEPT !.out = Some(TryFromExpr(conv[1].ast))])
    /\ last' = "try_from"
    /\ UNCHANGED <<database, registers, tables, last_table_index, pc, ret, eret, result,
                   hist, lim>>

SpecConvert == InitConvert /\ [][TryFrom]_vars

\* Selects: programs that create and register tables, look them up and project
\* them into new tables.
NextSelect ==
    CallIc \/ ReturnIc \/ InstrEmpty \/ InstrNewTable \/ InstrSource \/ InstrProject

SpecSelect == Init /\ [][NextSelect]_vars

\* --------------------------------------------------------------- properties
\* The handles some schema of the database holds.
SchemaHandles ==
    UNION {{database[s].tables[i] : i \in 1..Len(database[s].tables)} :
              s \in 1..Len(database)}

\* C1: every Empty and every new_temp_table call creates its table under a
\* handle never issued before, leaves every table already in the table map as
\* it was, and strictly increases last_table_index.
C1_FreshHandle ==
    [][(last' \in {"Empty", "new_temp_table"} /\ pc' # "aborted") =>
          /\ hist'.issued # hist.issued
          /\ \A h \in DOMAIN tables : h \in DOMAIN tables' /\ tables'[h] = tables[h]
          /\ last_table_index' > last_table_index]_vars

\* C2: once NewTable has registered a table under a name in a schema, and no
\* instruction since has targeted the table's handle or failed, a Source for
\* that name in that schema succeeds and stores a handle whose table has the
\* name, columns and rows the table had.
C2_SourceFindsRegistered ==
    [][\A index \in MainRegs, name \in TableRefs :
          (/\ hist.snap # None
           /\ name.table_name = hist.snap[1].tab.name
           /\ hist.snap[1].schema = (IF name.schema_name = None THEN database[1].name
                                     ELSE name.schema_name[1])
           /\ Apply("Source", {}, DoSource(index, name)))
          => /\ pc' = pc
             /\ registers'[index].kind = "TableRef"
             /\ registers'[index].h \in DOMAIN tables'
             /\ tables'[registers'[index].h] = hist.snap[1].tab]_vars

\* C3: Return on a register that holds the handle of a table yields a copy of
\* the table (same columns and rows); on a scalar value, a table of one column
\* named ?column? typed as the value, and one row holding the value; on any
\* other kind of register, CannotReturn; on an unset register, EmptyRegister.
C3_ReturnYields ==
    [][\A index \in Regs :
          Apply("Return", {index}, DoReturn(index)) =>
             LET reg == registers[index]
             IN CASE reg.kind = "TableRef" ->
                       reg.h \in DOMAIN tables =>
                          /\ pc' = pc
                          /\ ret' # None
                          /\ ret'[1].columns = tables[reg.h].columns
                          /\ ret'[1].raw_data = tables[reg.h].raw_data
                  [] reg.kind = "Value" ->
                       /\ pc' = pc
                       /\ ret' # None
                       /\ Len(ret'[1].columns) = 1
                       /\ ret'[1].columns[1].name = "?column?"
                       /\ ret'[1].columns[1].data_type = data_type(reg.v)
                       /\ ret'[1].raw_data = <<<<reg.v>>>>
                  [] reg.kind = "None" ->
                       pc' = "idle" /\ result'.status = "EmptyRegister"
                  [] OTHER ->
                       pc' = "idle" /\ result'.status = "CannotReturn"]_vars

\* C3, reached: a Return on a scalar value has just yielded its one-row table.
C3_ReturnedValue ==
    /\ last = "Return"
    /\ ret # None
    /\ Len(ret[1].columns) = 1
    /\ ret[1].raw_data = <<<<IntV(1)>>>>

\* C4: after a successful Return no further instruction of the same program
\* is executed, and execute_ic yields Some of that Return's table; a program
\* with no Return yields None.
C4_ReturnTerminates ==
    [][/\ hist.returned # None => last' \notin InstrKinds
       /\ (pc = "ic" /\ last' = "end_ic") => eret' = hist.returned]_vars

\* C5: execute over statements that all succeed returns the result of the last
\* statement that produced a table, and None only when no statement did.
C5_LastNonNull ==
    [][last' = "return" => result'.tab = hist.lastSome]_vars

\* C6: Filter on a table succeeds whenever the predicate evaluates on every
\* row to Bool(true), Bool(false) or Null, and leaves exactly the rows on
\* which it is Bool(true).
C6_FilterDropsNull ==
    [][\A index \in MainRegs, expr \in Exprs :
          (/\ registers[index].kind = "TableRef"
           /\ registers[index].h \in DOMAIN tables
           /\ LET t == tables[registers[index].h]
              IN \A r \in 1..Len(t.raw_data) :
                    /\ Eval(expr, t, t.raw_data[r]).ok
                    /\ Eval(expr, t, t.raw_data[r]).val \in {BoolV(TRUE), BoolV(FALSE), NullV}
           /\ FilterStep(index, expr))
          => LET h == registers[index].h
                 t == tables[h]
             IN /\ pc' = pc
                /\ tables'[h].raw_data =
                      SelectSeq(t.raw_data, LAMBDA row : Eval(expr, t, row).val = BoolV(TRUE))]_vars

C8_RowArity ==
    (last = "end_ic" /\ result.status = "Ok") =>
       \A h \in DOMAIN tables : \A r \in 1..Len(tables[h].raw_data) :
          Len(tables[h].raw_data[r]) = Len(tables[h].columns)

\* C9: every register is empty when a statement starts.
C9_RegistersPerStatement ==
    last = "execute_ic" => \A r \in Regs : registers[r] = NoReg

\* C10: after every completed statement every handle in the table map is held
\* by some schema.
C10_TempTablesDiscarded ==
    last = "end_ic" => \A h \in DOMAIN tables : h \in SchemaHandles

\* C11: executing a reserved instruction returns a not-implemented error to
\* the caller, does not abort the VM, and leaves registers, tables and catalog
\* as they were.
C11_ReservedUnimplemented ==
    [][last' \in ReservedInstrs =>
          /\ pc' = "idle"
          /\ result'.status \in {"Unimplemented", "Unsupported"}
          /\ registers' = registers
          /\ tables' = tables
          /\ database' = database]_vars

\* C12: Insert on an insert definition with a non-empty column list either
\* succeeds or returns an Unimplemented error; it never aborts the VM.
C12_InsertNamedColumns ==
    [][\A insert_index \in MainRegs :
          (/\ registers[insert_index].kind = "InsertDef"
           /\ registers[insert_index].columns # <<>>
           /\ Apply("Insert", {insert_index}, DoInsert(insert_index)))
          => /\ pc' # "aborted"
             /\ pc' = pc \/ result'.status = "Unimplemented"]_vars

\* C13: malformed register state never aborts the VM. Return and Filter on an
\* unset register yield EmptyRegister, on a register of the wrong kind the
\* register-kind error, and on a handle that is no longer in the table map an
\* error rather than a panic.
C13_MalformedRegisters ==
    [][\A index \in Regs :
          LET reg == registers[index]
              dangling == reg.kind = "TableRef" /\ reg.h \notin DOMAIN tables
              failed == pc' = "idle" /\ result'.status \notin {"Ok", "none"}
          IN /\ Apply("Return", {index}, DoReturn(index)) =>
                   /\ pc' # "aborted"
                   /\ reg.kind = "None" => result'.status = "EmptyRegister"
                   /\ reg.kind \notin {"None", "TableRef", "Value"} =>
                         result'.status = "CannotReturn"
                   /\ dangling => failed
             /\ \A expr \in Exprs :
                   FilterStep(index, expr) =>
                      /\ pc' # "aborted"
                      /\ reg.kind = "None" => result'.status = "EmptyRegister"
                      /\ reg.kind \notin {"None", "TableRef"} =>
                            result'.status = "RegisterNotATable"
                      /\ dangling => failed]_vars

\* A step in which an instruction returned an error.
ErrorStep == pc \in {"ic", "ic1"} /\ pc' = "idle" /\ last' \in InstrKinds

C16_UniqueColumnNames ==
    \A h \in DOMAIN tables :
       \A i \in 1..Len(tables[h].columns), j \in 1..Len(tables[h].columns) :
          i < j => tables[h].columns[i].name # tables[h].columns[j].name

\* The key Order computes for a row of table t.
OrderKey(t, expr, row) == ValueKey(Eval(expr, t, row).val)

\* The rows are in the order (expr, ascending) asks for.
InOrder(t, rows, expr, ascending) ==
    \A i \in 1..Len(rows), j \in 1..Len(rows) :
       i < j => IF ascending
                THEN OrderKey(t, expr, rows[i]) <= OrderKey(t, expr, rows[j])
                ELSE OrderKey(t, expr, rows[i]) >= OrderKey(t, expr, rows[j])

\* How often row r occurs in rows.
Occurrences(rows, r) == Cardinality({i \in 1..Len(rows) : rows[i] = r})

\* The rows of one key, in the order they have in rows.
RowsOfKey(t, rows, expr, k) == SelectSeq(rows, LAMBDA r : OrderKey(t, expr, r) = k)

\* C17: a successful Order keeps the multiset of rows, leaves the keys
\* non-decreasing (ascending) or non-increasing (descending), and keeps rows of
\* equal keys in the relative order they had, in both directions.
C17_OrderStable ==
    [][\A index \in MainRegs, expr \in Exprs, ascending \in BOOLEAN :
          (/\ OrderStep(index, expr, ascending)
           /\ pc' = pc
           /\ registers[index].kind = "TableRef")
          => LET h == registers[index].h
                 t == tables[h]
                 before == tables[h].raw_data
                 after == tables'[h].raw_data
             IN /\ Len(after) = Len(before)
                /\ \A i \in 1..Len(before) :
                      Occurrences(after, before[i]) = Occurrences(before, before[i])
                /\ InOrder(t, after, expr, ascending)
                /\ \A i \in 1..Len(before) :
                      RowsOfKey(t, after, expr, OrderKey(t, expr, before[i]))
                         = RowsOfKey(t, before, expr, OrderKey(t, expr, before[i]))]_vars

\* C18: Order on rows that are already in the requested order, ties included,
\* leaves the row sequence as it was, ascending or descending; and an Order
\* that repeats the Order before it leaves the table as that one left it.
C18_OrderSortedIdentity ==
    [][\A index \in MainRegs, expr \in Exprs, ascending \in BOOLEAN :
          (/\ OrderStep(index, expr, ascending)
           /\ pc' = pc
           /\ registers[index].kind = "TableRef")
          => LET h == registers[index].h
                 sorted == InOrder(tables[h], tables[h].raw_data, expr, ascending)
                 repeated == /\ hist.prev # None
                             /\ hist.prev[1].kind = "Order"
                             /\ hist.prev[1].arg = <<index, expr, ascending>>
             IN sorted \/ repeated => tables'[h].raw_data = tables[h].raw_data]_vars

\* sub is rows with some rows left out: the rows of sub are rows of rows, unmodified
\* and in the same relative order.
IsSubsequence(sub, rows) ==
    \E f \in [1..Len(sub) -> 1..Len(rows)] :
       /\ \A i \in 1..Len(sub), j \in 1..Len(sub) : i < j => f[i] < f[j]
       /\ \A i \in 1..Len(sub) : sub[i] = rows[f[i]]

\* C19: a successful Filter does not add rows; the rows it leaves are a
\* subsequence of the rows before it, and the columns of the table are as before.
C19_FilterSubsequence ==
    [][\A index \in MainRegs, expr \in Exprs :
          (/\ FilterStep(index, expr)
           /\ pc' = pc
           /\ registers[index].kind = "TableRef")
          => LET h == registers[index].h
             IN /\ Len(tables'[h].raw_data) <= Len(tables[h].raw_data)
                /\ IsSubsequence(tables'[h].raw_data, tables[h].raw_data)
                /\ tables'[h].columns = tables[h].columns]_vars

\* A Filter has just succeeded on a table of two different rows and left the
\* second of them.
C19_FilterKeptSome ==
    /\ last = "Filter"
    /\ pc = "ic1"
    /\ hist.prev # None
    /\ Len(hist.prev[1].rows) = 2
    /\ hist.prev[1].rows[1] # hist.prev[1].rows[2]
    /\ tables[next_index(0)].raw_data = <<hist.prev[1].rows[2]>>

\* C20: a Filter that repeats the successful Filter right before it succeeds
\* too and leaves every table as the first one left it.
C20_FilterIdempotent ==
    [][\A index \in MainRegs, expr \in Exprs :
          (/\ hist.prev # None
           /\ hist.prev[1].kind = "Filter"
           /\ hist.prev[1].arg = <<index, expr>>
           /\ FilterStep(index, expr))
          => /\ pc' = pc
             /\ tables' = tables
             /\ registers' = registers]_vars

\* The same Filter has succeeded twice in a row, the first one having dropped
\* a row and kept a row.
C20_FilteredTwice ==
    /\ last = "Filter"
    /\ pc = "ic1"
    /\ hist.prev # None
    /\ hist.prev[1].again
    /\ Len(hist.prev[1].first) = 2
    /\ Len(hist.prev[1].rows) = 1
    /\ tables[next_index(0)].raw_data = hist.prev[1].rows

\* The smaller of two numbers.
Min(a, b) == IF a <= b THEN a ELSE b

\* C21: a successful Limit leaves the first min(|rows|, n) rows of the table,
\* in their order, and the columns as they were; n = 0 leaves no row and
\* n >= |rows| leaves the table as it was.
C21_LimitPrefix ==
    [][\A index \in MainRegs, limit \in 0..lim.rows :
          (/\ LimitStep(index, limit)
           /\ pc' = pc
           /\ registers[index].kind = "TableRef")
          => LET h == registers[index].h
                 before == tables[h].raw_data
                 after == tables'[h].raw_data
             IN /\ Len(after) = Min(Len(before), limit)
                /\ after = SubSeq(before, 1, Min(Len(before), limit))
                /\ tables'[h].columns = tables[h].columns
                /\ limit = 0 => after = <<>>
                /\ limit >= Len(before) => tables' = tables]_vars

\* A Limit of one row has just cut a table of two different rows down to
\* its first row.
C21_LimitCut ==
    /\ last = "Limit"
    /\ pc = "ic1"
    /\ hist.prev # None
    /\ hist.prev[1].arg[2] = 1
    /\ Len(hist.prev[1].rows) = 2
    /\ hist.prev[1].rows[1] # hist.prev[1].rows[2]
    /\ tables[next_index(0)].raw_data = <<hist.prev[1].rows[1]>>

\* C22: NewSchema adds a schema when none has the name; when one has, it fails
\* with SchemaExists if exists_ok is false and succeeds leaving the database as
\* it was if exists_ok is true; so the schema names of the database stay
\* pairwise distinct.
C22_NewSchema ==
    /\ [](\A i \in 1..Len(database), j \in 1..Len(database) :
             i < j => database[i].name # database[j].name)
    /\ [][\A schema_name \in SchemaNames, exists_ok \in BOOLEAN :
             Apply("NewSchema", {}, DoNewSchema(schema_name, exists_ok))
             => IF \A i \in 1..Len(database) : database[i].name # schema_name
                THEN /\ pc' = pc
                     /\ Len(database') = Len(database) + 1
                     /\ SubSeq(database', 1, Len(database)) = database
                     /\ database'[Len(database')].name = schema_name
                ELSE /\ database' = database
                     /\ IF exists_ok THEN pc' = pc
                        ELSE pc' = "idle" /\ result'.status = "SchemaExists"]_vars

\* A NewSchema without exists_ok has just failed on the name of a schema an
\* earlier NewSchema added.
C22_SchemaExists ==
    /\ last = "NewSchema"
    /\ pc = "idle"
    /\ result.status = "SchemaExists"
    /\ Len(database) = 2
    /\ database[2].name = "s"

\* C23: a successful Insert of an insert definition without columns leaves the
\* table with the rows it had, unchanged and in place, followed by the rows of
\* the insert definition in the order RowDef created them.
C23_InsertAppends ==
    [][\A insert_index \in MainRegs :
          (/\ InsertStep(insert_index)
           /\ pc' = pc
           /\ registers[insert_index].kind = "InsertDef"
           /\ registers[insert_index].columns = <<>>)
          => LET h == registers[insert_index].table
             IN /\ tables'[h].raw_data = tables[h].raw_data \o registers[insert_index].rows
                /\ tables'[h].columns = tables[h].columns
                /\ \A g \in DOMAIN tables : g # h => tables'[g] = tables[g]]_vars

\* An Insert has just put a row behind the one row the table had, which is
\* another row.
C23_InsertedBehind ==
    /\ last = "Insert"
    /\ pc = "ic1"
    /\ hist.prev # None
    /\ Len(hist.prev[1].rows) = 1
    /\ Len(tables[next_index(0)].raw_data) = 2
    /\ tables[next_index(0)].raw_data[1] = hist.prev[1].rows[1]
    /\ tables[next_index(0)].raw_data[2] # hist.prev[1].rows[1]

\* C24: Project, with a wildcard or with another expression, on an output
\* table that has rows and not as many as the input table fails with
\* ProjectTableSizeMismatch and leaves every table as it was.
C24_ProjectSizeMismatch ==
    [][\A input \in MainRegs, output \in MainRegs, expr \in Exprs, alias \in Aliases :
          (/\ Apply("Project", {input, output}, DoProject(input, output, expr, alias))
           /\ registers[input].kind = "TableRef"
           /\ registers[output].kind = "TableRef"
           /\ registers[input].h # registers[output].h
           /\ {registers[input].h, registers[output].h} \subseteq DOMAIN tables
           /\ tables[registers[output].h].raw_data # <<>>
           /\ Len(tables[registers[input].h].raw_data)
                 # Len(tables[registers[output].h].raw_data))
          => /\ pc' = "idle"
             /\ result'.status = "ProjectTableSizeMismatch"
             /\ tables' = tables
             /\ registers' = registers]_vars

\* A Project has just failed with ProjectTableSizeMismatch on two tables of
\* which one has a row and the other has none.
C24_SizeMismatch ==
    /\ last = "Project"
    /\ pc = "idle"
    /\ result.status = "ProjectTableSizeMismatch"
    /\ \E g \in DOMAIN tables, h \in DOMAIN tables :
          tables[g].raw_data = <<>> /\ tables[h].raw_data # <<>>

\* C25: every table handle a schema of the database holds is a key of the
\* table map, whatever instructions execute_ic has run.
C25_SchemaHandlesLive ==
    \A s \in 1..Len(database) :
       \A i \in 1..Len(database[s].tables) : database[s].tables[i] \in DOMAIN tables

\* A NewTable has just registered a table in the schema s.
C25_Registered ==
    /\ last = "NewTable"
    /\ pc = "ic1"
    /\ \E s \in 1..Len(database) : database[s].name = "s" /\ database[s].tables # <<>>

\* C26: x BETWEEN a AND b converts to (a <= x) AND (x <= b), a Binary with op
\* And over Binary{a, LessThanOrEqual, x} and Binary{x, LessThanOrEqual, b};
\* x NOT BETWEEN a AND b converts to that expression under Unary{Not}.
C26_BetweenLowering ==
    (/\ conv # None
     /\ conv[1].out # None
     /\ conv[1].ast.t = "Between"
     /\ TryFromExpr(conv[1].ast.expr).ok
     /\ TryFromExpr(conv[1].ast.low).ok
     /\ TryFromExpr(conv[1].ast.high).ok)
    => LET x == TryFromExpr(conv[1].ast.expr).expr
           a == TryFromExpr(conv[1].ast.low).expr
           b == TryFromExpr(conv[1].ast.high).expr
           between == [t |-> "Binary",
                       left |-> [t |-> "Binary", left |-> a, op |-> "LessThanOrEqual",
                                 right |-> x],
                       op |-> "And",
                       right |-> [t |-> "Binary", left |-> x, op |-> "LessThanOrEqual",
                                  right |-> b]]
       IN /\ conv[1].out[1].ok
          /\ conv[1].out[1].expr = IF conv[1].ast.negated
                                   THEN [t |-> "Unary", op |-> "Not", operand |-> between]
                                   ELSE between

\* a NOT BETWEEN b AND TRUE has been converted.
C26_NotBetweenConverted ==
    /\ conv # None
    /\ conv[1].out # None
    /\ conv[1].ast = AstBetween(AstIdentifier("a"), TRUE, AstIdentifier("b"),
                                AstValue(BoolV(TRUE)))
    /\ conv[1].out[1].ok

\* C27: a Project whose input register and output register hold the same
\* table handle does not abort the VM; it ends with a result or with an error.
C27_ProjectSameHandle ==
    [][\A input \in MainRegs, output \in MainRegs, expr \in Exprs, alias \in Aliases :
          (/\ Apply("Project", {input, output}, DoProject(input, output, expr, alias))
           /\ input # output
           /\ registers[input].kind = "TableRef"
           /\ registers[output].kind = "TableRef"
           /\ registers[input].h = registers[output].h)
          => pc' # "aborted"]_vars

\* C28: an instruction that returns an error leaves the registers, the tables
\* and the catalog as they were before it.
C28_ErrorNoEffect ==
    [][ErrorStep => /\ registers' = registers
                    /\ tables' = tables
                    /\ database' = database]_vars

\* C29: a NewTable that does not register its table (TableExists,
\* SchemaNotFound, or success with exists_ok on a taken name) leaves the table
\* of its register with the name it had, and every schema with the handles it
\* had.
C29_NewTableFrame ==
    [][\A index \in MainRegs, name \in TableRefs, exists_ok \in BOOLEAN :
          (/\ Apply("NewTable", {index}, DoNewTable(index, name, exists_ok))
           /\ registers[index].kind = "TableRef"
           /\ \/ pc' = "idle" /\ result'.status \in {"TableExists", "SchemaNotFound"}
              \/ pc' = pc /\ exists_ok /\ database' = database)
          => /\ tables'[registers[index].h].name = tables[registers[index].h].name
             /\ database' = database]_vars

\* C30: a successful RowDef adds an empty row at the end of its insert
\* definition and stores a cursor to that row; a successful AddValue appends one
\* value to the end of the row its cursor designates and changes nothing else;
\* and no AddValue aborts the VM, whatever its cursor's insert definition
\* register holds by then.
C30_RowCursors ==
    [][/\ \A insert_index \in MainRegs, row_reg_index \in RowRegs :
             (/\ Apply("RowDef", {insert_index}, DoRowDef(insert_index, row_reg_index))
              /\ pc' = pc)
             => /\ registers'[insert_index].rows = Append(registers[insert_index].rows, <<>>)
                /\ registers'[row_reg_index] =
                      InsertRowReg(insert_index, Len(registers[insert_index].rows))
                /\ tables' = tables
       /\ \A row_reg_index \in Regs, expr \in InsertExprs :
             Apply("AddValue", {row_reg_index}, DoAddValue(row_reg_index, expr))
             => /\ pc' # "aborted"
                /\ pc' = pc =>
                      LET row == registers[row_reg_index]
                          before == registers[row.def].rows
                          after == registers'[row.def].rows
                          k == row.row_index + 1
                      IN /\ Len(after) = Len(before)
                         /\ \A i \in 1..Len(before) :
                               IF i = k
                               THEN /\ Len(after[i]) = Len(before[i]) + 1
                                    /\ SubSeq(after[i], 1, Len(before[i])) = before[i]
                               ELSE after[i] = before[i]
                         /\ \A r \in Regs : r # row.def => registers'[r] = registers[r]
                         /\ tables' = tables]_vars

====
